---- MODULE Spec2Model ----
(***************************************************************************)
(* Model of sniping.py: discovery of (zone, gpu) candidates, the wave      *)
(* scheduler of main(), the ThreadPoolExecutor it drives and the           *)
(* create_vm attempts that race on the shared stop_event.                  *)
(*                                                                         *)
(* Text is modelled as a sequence of one-character strings, so that        *)
(* split("/") and sorted() are computed, not assumed.                      *)
(***************************************************************************)
EXTENDS Integers, Sequences, FiniteSets, TLC

VARIABLES
    MAX_WORKERS,    \* configuration: pool size (sniping.py:17)
    MAX_RETRIES,    \* configuration: wave cap, -1 = endless (sniping.py:15)
    pc,             \* position of the main thread
    gpu_idx,        \* index of the next GPU_CONFIG key in the discovery loop
    tasks,          \* main(): list of (zone, gpu) candidates
    stop_event,     \* threading.Event shared by all threads
    attempt_count,  \* main(): wave counter
    futures,        \* futures of the current wave, in submission order
    k,              \* index in tasks of the candidate the submit loop is at
    loopSig,        \* value of stop_event read by the submit loop at l.146
    exit_code,      \* process exit status, -1 while running
    mainlog,        \* kinds of lines logged by the main thread
    nSuccess,       \* history: create_vm calls that returned True
    sleeps,         \* history: backoff sleeps taken
    lateSubmits,    \* history: executor.submit calls made while stop_event set
    calls,          \* history: provisioning calls started
    lateCalls,      \* history: provisioning calls started while stop_event set
    onlyFail,       \* history: every returned call so far exited non-zero
    sawRc0,         \* history: some provisioning call exited with status 0
    sawToolMissing, \* history: some provisioning call raised FileNotFoundError
    arg,            \* input of the function under study (function specifications)
    res             \* its result, "none" before it is applied

vars == <<MAX_WORKERS, MAX_RETRIES, pc, gpu_idx, tasks, stop_event,
          attempt_count, futures, k, loopSig, exit_code, mainlog,
          nSuccess, sleeps, lateSubmits, calls, lateCalls, onlyFail,
          sawRc0, sawToolMissing, arg, res>>

\* Variables only the function specifications change.
fnVars == <<arg, res>>

(***************************************************************************)
(* Bounds of the model.                                                    *)
(***************************************************************************)
MaxPool == 2        \* MAX_WORKERS ranges over 1..MaxPool
MaxRetries == 2     \* MAX_RETRIES ranges over {-1} \cup 0..MaxRetries
MaxWaves == 1       \* waves explored when MAX_RETRIES = -1
MaxRecords == 2     \* records in one discovery response
MaxTasks == 2       \* candidates discovered in one run
MaxWords == 2       \* words in a classified error text

(***************************************************************************)
(* Text helpers.                                                           *)
(***************************************************************************)
Alphabet == <<"/", "a", "b", "z">>

CharRank(c) == CHOOSE i \in 1..Len(Alphabet) : Alphabet[i] = c

\* Python's str comparison: lexicographic, a proper prefix sorts first.
RECURSIVE StrLess(_, _)
StrLess(s, t) ==
    IF t = <<>> THEN FALSE
    ELSE IF s = <<>> THEN TRUE
    ELSE IF Head(s) = Head(t) THEN StrLess(Tail(s), Tail(t))
    ELSE CharRank(Head(s)) < CharRank(Head(t))

\* str.split(sep): the list of pieces between the separators.
RECURSIVE SplitAcc(_, _, _)
SplitAcc(s, sep, cur) ==
    IF s = <<>> THEN <<cur>>
    ELSE IF Head(s) = sep THEN <<cur>> \o SplitAcc(Tail(s), sep, <<>>)
    ELSE SplitAcc(Tail(s), sep, Append(cur, Head(s)))

Split(s, sep) == SplitAcc(s, sep, <<>>)

Last(seq) == seq[Len(seq)]

\* sorted(set(zones))
RECURSIVE SortedSet(_)
SortedSet(S) ==
    IF S = {} THEN <<>>
    ELSE LET m == CHOOSE x \in S : \A y \in S \ {x} : StrLess(x, y)
         IN  <<m>> \o SortedSet(S \ {m})

RECURSIVE SeqsUpTo(_, _)
SeqsUpTo(S, n) ==
    IF n = 0 THEN {<<>>}
    ELSE LET shorter == SeqsUpTo(S, n - 1)
         IN  shorter \cup {Append(q, x) : q \in shorter, x \in S}

(***************************************************************************)
(* Discovery: run_gcloud_json and get_zones_for_gpu.                       *)
(***************************************************************************)
GpuKinds == <<"nvidia-tesla-t4", "nvidia-l4">>

\* Zone fields as gcloud prints them: short names and qualified URLs.
ZoneStrings == { <<"a">>, <<"b">>, <<"z", "/", "a">>, <<"z", "/", "b">> }

\* Items of the JSON list: with a "zone" key, or without one.
Records == {[zone |-> s] : s \in ZoneStrings} \cup {[name |-> <<"a">>]}

\* What the gcloud subprocess of a discovery query can do.
DiscoveryOutcomes ==
    {[kind |-> "ok", data |-> d] : d \in SeqsUpTo(Records, MaxRecords)}
    \cup {[kind |-> "CalledProcessError"],
          [kind |-> "FileNotFoundError"],
          [kind |-> "JSONDecodeError"]}

\* run_gcloud_json: only CalledProcessError is caught.
run_gcloud_json(o) ==
    IF o.kind = "ok" THEN [raised |-> "none", value |-> o.data]
    ELSE IF o.kind = "CalledProcessError"
         THEN [raised |-> "none", value |-> <<>>]
         ELSE [raised |-> o.kind, value |-> <<>>]

HasZone(item) == "zone" \in DOMAIN item

get_zones_for_gpu_nodedup(o) ==
    LET r == run_gcloud_json(o)
        items == SelectSeq(r.value, HasZone)
    IN  [raised |-> r.raised,
         value  |-> IF r.raised = "none"
                    THEN [i \in 1..Len(items) |-> Last(Split(items[i].zone, "/"))]
                    ELSE <<>>]

\* get_zones_for_gpu, given the outcome of its query.
get_zones_for_gpu(o) ==
    LET r == run_gcloud_json(o)
        zones == {Last(Split(r.value[i].zone, "/")) :
                     i \in {j \in 1..Len(r.value) : "zone" \in DOMAIN r.value[j]}}
    IN  [raised |-> r.raised,
         value  |-> IF r.raised = "none" THEN SortedSet(zones) ELSE <<>>]

\* tasks.extend((z, gpu_type) for z in zones)
RECURSIVE Extend(_, _, _)
Extend(t, zones, gpu) ==
    IF zones = <<>> THEN t
    ELSE Extend(Append(t, [zone |-> Head(zones), gpu |-> gpu]), Tail(zones), gpu)

(***************************************************************************)
(* Initial state: the configuration is fixed for the run.                  *)
(***************************************************************************)
Init ==
    /\ MAX_WORKERS \in 1..MaxPool
    /\ MAX_RETRIES \in {-1} \cup 0..MaxRetries
    /\ pc = "l126"
    /\ gpu_idx = 1
    /\ tasks = <<>>
    /\ stop_event = FALSE
    /\ attempt_count = 0
    /\ futures = <<>>
    /\ k = 1
    /\ loopSig = FALSE
    /\ exit_code = -1
    /\ mainlog = {}
    /\ nSuccess = 0
    /\ sleeps = 0
    /\ lateSubmits = 0
    /\ calls = 0
    /\ lateCalls = 0
    /\ onlyFail = TRUE
    /\ sawRc0 = FALSE
    /\ sawToolMissing = FALSE
    /\ arg = "none"
    /\ res = "none"

(***************************************************************************)
(* main(): discovery, l.125-135.                                           *)
(***************************************************************************)
\* One iteration of "for gpu_type in GPU_CONFIG" (l.126-129).  An exception
\* that run_gcloud_json does not catch leaves main() with a traceback.
Discover ==
    /\ pc = "l126"
    /\ gpu_idx <= Len(GpuKinds)
    /\ \E o \in DiscoveryOutcomes :
         LET r == get_zones_for_gpu(o) IN
         IF r.raised # "none"
         THEN /\ pc' = "done"
              /\ exit_code' = 1
              /\ mainlog' = mainlog \cup {"Traceback"}
              /\ UNCHANGED <<tasks, gpu_idx>>
         ELSE /\ Len(tasks) + Len(r.value) <= MaxTasks
              /\ tasks' = Extend(tasks, r.value, GpuKinds[gpu_idx])
              /\ gpu_idx' = gpu_idx + 1
              /\ pc' = IF gpu_idx = Len(GpuKinds) THEN "l131" ELSE "l126"
              /\ UNCHANGED <<exit_code, mainlog>>
    /\ UNCHANGED <<MAX_WORKERS, MAX_RETRIES, stop_event, attempt_count,
                   futures, k, loopSig, nSuccess, sleeps, lateSubmits,
                   calls, lateCalls, onlyFail, sawRc0, sawToolMissing,
                   fnVars>>

NoTasksNever(t) == FALSE

\* "not tasks"
NoTasks(t) == t = <<>>

\* l.131-135
CheckTasks ==
    /\ pc = "l131"
    /\ IF NoTasks(tasks)
       THEN /\ mainlog' = mainlog \cup {"NoZones"}
            /\ exit_code' = 1
            /\ pc' = "done"
       ELSE /\ pc' = "l137"
            /\ UNCHANGED <<mainlog, exit_code>>
    /\ UNCHANGED <<MAX_WORKERS, MAX_RETRIES, gpu_idx, tasks, stop_event,
                   attempt_count, futures, k, loopSig, nSuccess, sleeps,
                   lateSubmits, calls, lateCalls, onlyFail, sawRc0,
                   sawToolMissing, fnVars>>

(***************************************************************************)
(* Futures and the worker pool (ThreadPoolExecutor(max_workers), l.143).   *)
(*   st: "queued"  in the work queue                                       *)
(*       "l82"     taken by a worker thread, start check (l.76) passed,    *)
(*                 about to log [Start] and call                           *)
(*       "incall"  inside subprocess.run (l.97)                            *)
(*       "l102"    call returned, re-check (l.99) passed, about to act on  *)
(*                 the return code                                         *)
(*       "done"    create_vm returned or raised                            *)
(*       "cancelled" cancelled in the queue by shutdown(cancel_futures)    *)
(*       "collected" done, and its result consumed by main() (l.152)       *)
(***************************************************************************)
NewFuture(task) ==
    [task |-> task, st |-> "queued", rc |-> -1, exc |-> "none", ret |-> "none",
     startSig |-> "none", postSig |-> "none", log |-> {}]

\* A future as_completed has yielded and whose result main() has consumed:
\* nothing reads it again.
Collected(f) == [NewFuture(f.task) EXCEPT !.st = "collected"]

Idx == 1..Len(futures)

Busy(f) == f.st \in {"l82", "incall", "l102"}

Settled(f) == f.st \in {"done", "cancelled", "collected"}

InCall == {i \in Idx : futures[i].st = "incall"}

ThreadAlways(fs, maxw) == TRUE

\* A worker thread is idle or can still be spawned: at most max_workers
\* threads exist, each running one work item.
ThreadAvailable(fs, maxw) ==
    Cardinality({i \in 1..Len(fs) : Busy(fs[i])}) < maxw

SigOf(b) == IF b THEN "set" ELSE "unset"

(***************************************************************************)
(* Outcome classification of create_vm, l.108-116.  The error text is a    *)
(* sequence of words; "in" is containment of a word.                       *)
(***************************************************************************)
Lower(w) ==
    CASE w = "Resources" -> "resources"
      [] w = "Exhausted" -> "exhausted"
      [] w = "Quota"     -> "quota"
      [] w = "Invalid"   -> "invalid"
      [] w = "Not found" -> "not found"
      [] w = "Not available" -> "not available"
      [] OTHER           -> w

LowerText(err) == [i \in 1..Len(err) |-> Lower(err[i])]

Contains(err, w) == \E i \in 1..Len(err) : err[i] = w

ClassifyTag(err) ==
    IF Contains(err, "resources") \/ Contains(err, "exhausted")
          \/ Contains(err, "not available")
    THEN "FailCapacity"
    ELSE IF Contains(LowerText(err), "quota") THEN "FailQuota"
    ELSE IF Contains(LowerText(err), "invalid")
              \/ Contains(LowerText(err), "not found") THEN "Error"
    ELSE "Fail"

\* stderr texts the provisioning call produces in the scheduler model.
ErrTexts == { <<"resources", "exhausted">>, <<"Quota", "exceeded">>,
              <<"Invalid", "value">>, <<>> }

(***************************************************************************)
(* create_vm, run by a worker thread for future i.                         *)
(***************************************************************************)
mainUnch == <<MAX_WORKERS, MAX_RETRIES, pc, gpu_idx, tasks, attempt_count,
              k, loopSig, exit_code, mainlog, sleeps, lateSubmits, fnVars>>

StartCheckNever(sig) == FALSE

\* "if stop_event.is_set()" at l.76, as create_vm evaluates it.
StartCheckStops(sig) == sig

\* A worker thread takes the oldest queued work item and runs create_vm up
\* to its start check, l.76-77.
StartCheck(i) ==
    /\ i \in Idx
    /\ futures[i].st = "queued"
    /\ \A j \in 1..(i - 1) : futures[j].st # "queued"
    /\ ThreadAvailable(futures, MAX_WORKERS)
    /\ futures' = [futures EXCEPT
           ![i].startSig = SigOf(stop_event),
           ![i].st  = IF StartCheckStops(stop_event) THEN "done" ELSE "l82",
           ![i].ret = IF StartCheckStops(stop_event) THEN "False" ELSE "none"]
    /\ UNCHANGED <<mainUnch, stop_event, nSuccess, calls, lateCalls, onlyFail,
                   sawRc0, sawToolMissing>>

\* l.79-97: log [Start], enter subprocess.run.
Invoke(i) ==
    /\ i \in Idx
    /\ futures[i].st = "l82"
    /\ futures' = [futures EXCEPT
           ![i].st = "incall",
           ![i].log = @ \cup {"Start"}]
    /\ calls' = calls + 1
    /\ lateCalls' = lateCalls + (IF stop_event THEN 1 ELSE 0)
    /\ UNCHANGED <<mainUnch, stop_event, nSuccess, onlyFail, sawRc0,
                   sawToolMissing>>

PostCheckNever(sig) == FALSE

\* "if stop_event.is_set()" at l.99, as create_vm evaluates it.
PostCheckStops(sig) == sig

\* l.97-100: subprocess.run returns an exit status, or raises because the
\* executable is missing (FileNotFoundError) or cannot be run (OSError);
\* on return create_vm re-checks stop_event at once.
Return(i) ==
    /\ i \in Idx
    /\ futures[i].st = "incall"
    /\ \E o \in {"rc0", "rc1", "FileNotFoundError", "OSError"} :
         /\ futures' = [futures EXCEPT
                ![i].st  = IF o \in {"rc0", "rc1"} /\ ~PostCheckStops(stop_event)
                           THEN "l102" ELSE "done",
                ![i].rc  = IF o = "rc0" THEN 0 ELSE IF o = "rc1" THEN 1 ELSE -1,
                ![i].exc = IF o \in {"rc0", "rc1"} THEN "none" ELSE o,
                ![i].ret = IF o \in {"rc0", "rc1"} /\ PostCheckStops(stop_event)
                           THEN "False" ELSE "none",
                ![i].postSig = IF o \in {"rc0", "rc1"}
                               THEN SigOf(stop_event) ELSE "none"]
         /\ onlyFail' = (onlyFail /\ o = "rc1")
         /\ sawRc0' = (sawRc0 \/ o = "rc0")
         /\ sawToolMissing' = (sawToolMissing \/ o = "FileNotFoundError")
    /\ UNCHANGED <<mainUnch, stop_event, nSuccess, calls, lateCalls>>

\* l.102-117
Finish(i) ==
    /\ i \in Idx
    /\ futures[i].st = "l102"
    /\ IF futures[i].rc = 0
       THEN /\ stop_event' = TRUE
            /\ futures' = [futures EXCEPT
                   ![i].st = "done", ![i].ret = "True",
                   ![i].log = @ \cup {"SUCCESS", "SSH"}]
            /\ nSuccess' = nSuccess + 1
       ELSE /\ \E err \in ErrTexts :
                 futures' = [futures EXCEPT
                     ![i].st = "done", ![i].ret = "False",
                     ![i].log = @ \cup {ClassifyTag(err)}]
            /\ UNCHANGED <<stop_event, nSuccess>>
    /\ UNCHANGED <<mainUnch, calls, lateCalls, onlyFail, sawRc0,
                   sawToolMissing>>

(***************************************************************************)
(* main(): the wave loop, l.137-170.                                       *)
(***************************************************************************)
confUnch == <<MAX_WORKERS, MAX_RETRIES, gpu_idx, fnVars>>
histUnch == <<nSuccess, calls, lateCalls, onlyFail, sawRc0, sawToolMissing>>

\* l.137: "while not stop_event.is_set()".  Leaving the loop returns from
\* main(), exit status 0.
WhileCheck ==
    /\ pc = "l137"
    /\ IF stop_event
       THEN /\ pc' = "done"
            /\ exit_code' = 0
       ELSE /\ MAX_RETRIES = -1 => attempt_count < MaxWaves
            /\ pc' = "l138"
            /\ UNCHANGED exit_code
    /\ UNCHANGED <<confUnch, histUnch, tasks, stop_event, attempt_count,
                   futures, k, loopSig, mainlog, sleeps, lateSubmits>>

ShufflesLossy(t) == IF t = <<>> THEN {t} ELSE {Tail(t)}

\* random.shuffle(tasks): any reordering.
Shuffles(t) ==
    {[i \in 1..Len(t) |-> t[p[i]]] :
        p \in {q \in [1..Len(t) -> 1..Len(t)] :
                  \A a, b \in 1..Len(t) : q[a] = q[b] => a = b}}

\* l.138-144
StartWave ==
    /\ pc = "l138"
    /\ attempt_count' = attempt_count + 1
    /\ mainlog' = mainlog \cup {"Wave"}
    /\ tasks' \in Shuffles(tasks)
    /\ futures' = <<>>
    /\ k' = 1
    /\ pc' = "l146"
    /\ UNCHANGED <<confUnch, histUnch, stop_event, loopSig, exit_code,
                   sleeps, lateSubmits>>

LoopCheckNever(sig) == FALSE

\* "if stop_event.is_set(): break" at l.146, as the submit loop evaluates it.
LoopCheckStops(sig) == sig

\* l.145-147: next candidate, or the end of the for loop.
LoopCheck ==
    /\ pc = "l146"
    /\ IF k > Len(tasks)
       THEN /\ pc' = "l150"
            /\ UNCHANGED loopSig
       ELSE /\ loopSig' = stop_event
            /\ pc' = IF LoopCheckStops(stop_event) THEN "l150" ELSE "l148"
    /\ UNCHANGED <<confUnch, histUnch, tasks, stop_event, attempt_count,
                   futures, k, exit_code, mainlog, sleeps, lateSubmits>>

\* l.148
Submit ==
    /\ pc = "l148"
    /\ futures' = Append(futures, NewFuture(tasks[k]))
    /\ lateSubmits' = lateSubmits + (IF stop_event THEN 1 ELSE 0)
    /\ k' = k + 1
    /\ pc' = "l146"
    /\ UNCHANGED <<confUnch, histUnch, tasks, stop_event, attempt_count,
                   loopSig, exit_code, mainlog, sleeps>>

AnyException(exc) == exc # "none"

\* "except FileNotFoundError" at l.153
ToolMissing(exc) == exc = "FileNotFoundError"

\* l.150-159: as_completed yields a finished future; f.result() re-raises.
Collect(i) ==
    /\ pc = "l150"
    /\ i \in Idx
    /\ futures[i].st \in {"done", "cancelled"}
    /\ futures' = [futures EXCEPT ![i] = Collected(@)]
    /\ IF ToolMissing(futures[i].exc)
       THEN /\ mainlog' = mainlog \cup {"GcloudNotFound"}
            /\ pc' = "l155"
       ELSE IF futures[i].exc # "none" \/ futures[i].st = "cancelled"
       THEN /\ mainlog' = mainlog \cup {"WorkerCrashed"}
            /\ UNCHANGED pc
       ELSE UNCHANGED <<mainlog, pc>>
    /\ UNCHANGED <<confUnch, histUnch, tasks, stop_event, attempt_count,
                   k, loopSig, exit_code, sleeps, lateSubmits>>

\* as_completed is exhausted: every submitted future was yielded.
CollectEnd ==
    /\ pc = "l150"
    /\ \A i \in Idx : futures[i].st = "collected"
    /\ pc' = "exit"
    /\ UNCHANGED <<confUnch, histUnch, tasks, stop_event, attempt_count,
                   futures, k, loopSig, exit_code, mainlog, sleeps,
                   lateSubmits>>

SetOnToolMissingNoSet ==
    /\ pc = "l155"
    /\ pc' = "l156"
    /\ UNCHANGED <<confUnch, histUnch, tasks, stop_event, attempt_count,
                   futures, k, loopSig, exit_code, mainlog, sleeps,
                   lateSubmits>>

\* l.155
SetOnToolMissing ==
    /\ pc = "l155"
    /\ stop_event' = TRUE
    /\ pc' = "l156"
    /\ UNCHANGED <<confUnch, histUnch, tasks, attempt_count, futures, k,
                   loopSig, exit_code, mainlog, sleeps, lateSubmits>>

\* l.156-157: shutdown(wait=False, cancel_futures=True) cancels what is
\* still queued and does not wait; then break.
ShutdownCancel ==
    /\ pc = "l156"
    /\ futures' = [i \in Idx |->
                     IF futures[i].st = "queued"
                     THEN [futures[i] EXCEPT !.st = "cancelled"]
                     ELSE futures[i]]
    /\ pc' = "exit"
    /\ UNCHANGED <<confUnch, histUnch, tasks, stop_event, attempt_count, k,
                   loopSig, exit_code, mainlog, sleeps, lateSubmits>>

JoinedNoWait(fs) == TRUE

\* shutdown(wait=True) joins the worker threads: they end once no work
\* item is queued or running.
Joined(fs) == \A i \in 1..Len(fs) : Settled(fs[i])

\* End of the with block (l.143): ThreadPoolExecutor.__exit__.
ExitWith ==
    /\ pc = "exit"
    /\ Joined(futures)
    /\ pc' = "l161"
    /\ UNCHANGED <<confUnch, histUnch, tasks, stop_event, attempt_count,
                   futures, k, loopSig, exit_code, mainlog, sleeps,
                   lateSubmits>>

AfterWaveNoBreak ==
    /\ pc = "l161"
    /\ pc' = "l164"
    /\ UNCHANGED <<confUnch, histUnch, tasks, stop_event, attempt_count,
                   futures, k, loopSig, exit_code, mainlog, sleeps,
                   lateSubmits>>

\* l.161-162: break, main() returns, exit status 0.
AfterWave ==
    /\ pc = "l161"
    /\ IF stop_event
       THEN /\ pc' = "done"
            /\ exit_code' = 0
       ELSE /\ pc' = "l164"
            /\ UNCHANGED exit_code
    /\ UNCHANGED <<confUnch, histUnch, tasks, stop_event, attempt_count,
                   futures, k, loopSig, mainlog, sleeps, lateSubmits>>

CapReachedLate(count, cap) == cap # -1 /\ count > cap

\* "MAX_RETRIES != -1 and attempt_count >= MAX_RETRIES"
CapReached(count, cap) == cap # -1 /\ count >= cap

\* l.164-166
CapCheck ==
    /\ pc = "l164"
    /\ IF CapReached(attempt_count, MAX_RETRIES)
       THEN /\ mainlog' = mainlog \cup {"Stop"}
            /\ pc' = "done"
            /\ exit_code' = 0
       ELSE /\ pc' = "l168"
            /\ UNCHANGED <<mainlog, exit_code>>
    /\ UNCHANGED <<confUnch, histUnch, tasks, stop_event, attempt_count,
                   futures, k, loopSig, sleeps, lateSubmits>>

\* l.168-170: enter time.sleep(RETRY_DELAY).
Sleep ==
    /\ pc = "l168"
    /\ IF ~stop_event
       THEN /\ mainlog' = mainlog \cup {"Sleep"}
            /\ sleeps' = sleeps + 1
            /\ pc' = "sleeping"
       ELSE /\ pc' = "l137"
            /\ UNCHANGED <<mainlog, sleeps>>
    /\ UNCHANGED <<confUnch, histUnch, tasks, stop_event, attempt_count,
                   futures, k, loopSig, exit_code, lateSubmits>>

\* time.sleep returns; back to the while test.
Wake ==
    /\ pc = "sleeping"
    /\ pc' = "l137"
    /\ UNCHANGED <<confUnch, histUnch, tasks, stop_event, attempt_count,
                   futures, k, loopSig, exit_code, mainlog, sleeps,
                   lateSubmits>>

Worker ==
    \E i \in Idx :
        \/ StartCheck(i)
        \/ Invoke(i)
        \/ Return(i)
        \/ Finish(i)

Next ==
    \/ Discover
    \/ CheckTasks
    \/ WhileCheck
    \/ StartWave
    \/ LoopCheck
    \/ Submit
    \/ \E i \in Idx : Collect(i)
    \/ CollectEnd
    \/ SetOnToolMissing
    \/ ShutdownCancel
    \/ ExitWith
    \/ AfterWave
    \/ CapCheck
    \/ Sleep
    \/ Wake
    \/ Worker

(***************************************************************************)
(* The pure parts of the program, each under a specification of its own:   *)
(* the inputs are drawn in the initial state and one action applies the    *)
(* function.  The scheduler's variables stay at their startup values.      *)
(***************************************************************************)
FnInit(p) ==
    /\ MAX_WORKERS = 6
    /\ MAX_RETRIES = -1
    /\ pc = p
    /\ gpu_idx = 1
    /\ tasks = <<>>
    /\ stop_event = FALSE
    /\ attempt_count = 0
    /\ futures = <<>>
    /\ k = 1
    /\ loopSig = FALSE
    /\ exit_code = -1
    /\ mainlog = {}
    /\ nSuccess = 0
    /\ sleeps = 0
    /\ lateSubmits = 0
    /\ calls = 0
    /\ lateCalls = 0
    /\ onlyFail = TRUE
    /\ sawRc0 = FALSE
    /\ sawToolMissing = FALSE

schedUnch == <<MAX_WORKERS, MAX_RETRIES, gpu_idx, tasks, stop_event,
               attempt_count, futures, k, loopSig, exit_code, mainlog,
               nSuccess, sleeps, lateSubmits, calls, lateCalls, onlyFail,
               sawRc0, sawToolMissing>>

\* --- classification of result.stderr, l.107-117 ---
\* Words of an error text: the markers in both letter cases, and a filler.
Words == {"resources", "Resources", "exhausted", "Exhausted",
          "not available", "Not available", "quota", "Quota",
          "invalid", "Invalid", "not found", "Not found", "x"}

InitClassify ==
    /\ FnInit("l108")
    /\ arg \in SeqsUpTo(Words, MaxWords)
    /\ res = "none"

\* The if/elif chain of l.108-116 on err = arg; res is the branch taken.
Classify ==
    /\ pc = "l108"
    /\ res' = ClassifyTag(arg)
    /\ pc' = "l117"
    /\ UNCHANGED <<schedUnch, arg>>

NextClassify == Classify

SpecClassify == InitClassify /\ [][NextClassify]_vars

\* --- instance name, l.80 ---
INSTANCE_NAME_BASE == <<"g", "p", "u", "-", "w", "o", "r", "k", "e", "r">>

\* Keys an edited GPU_CONFIG can hold: the two shipped ones and the
\* virtual-workstation variants of two accelerators.
NameKinds == { <<"n", "v", "i", "d", "i", "a", "-", "t", "e", "s", "l", "a", "-", "t", "4">>,
               <<"n", "v", "i", "d", "i", "a", "-", "l", "4">>,
               <<"n", "v", "i", "d", "i", "a", "-", "t", "e", "s", "l", "a", "-", "t", "4", "-", "v", "w", "s">>,
               <<"n", "v", "i", "d", "i", "a", "-", "t", "e", "s", "l", "a", "-", "p", "4", "-", "v", "w", "s">> }

NameZones == { <<"a">>, <<"b">>, <<"a", "-", "b">> }

NameCandidates == {[zone |-> z, gpu |-> g] : z \in NameZones, g \in NameKinds}

\* f"{INSTANCE_NAME_BASE}-{gpu_type.split('-')[-1]}-{zone}"
instance_name(zone, gpu_type) ==
    INSTANCE_NAME_BASE \o <<"-">> \o Last(Split(gpu_type, "-"))
                       \o <<"-">> \o zone

InitName ==
    /\ FnInit("l80")
    /\ arg \in NameCandidates \X NameCandidates
    /\ res = <<>>

\* Two attempts, for the candidates arg[1] and arg[2], derive their names.
Name ==
    /\ pc = "l80"
    /\ res' = <<instance_name(arg[1].zone, arg[1].gpu),
                instance_name(arg[2].zone, arg[2].gpu)>>
    /\ pc' = "l82"
    /\ UNCHANGED <<schedUnch, arg>>

NextName == Name

SpecName == InitName /\ [][NextName]_vars

\* --- candidate building, l.62-72 and l.125-129 ---
InitBuild ==
    /\ FnInit("l126")
    /\ arg \in [1..Len(GpuKinds) -> DiscoveryOutcomes]
    /\ res = "none"

\* One iteration of "for gpu_type in GPU_CONFIG" (l.126-129) when the
\* discovery query for the kind answers arg[gpu_idx].
Build ==
    /\ pc = "l126"
    /\ gpu_idx <= Len(GpuKinds)
    /\ LET r == get_zones_for_gpu(arg[gpu_idx]) IN
       IF r.raised # "none"
       THEN /\ pc' = "done"
            /\ exit_code' = 1
            /\ mainlog' = mainlog \cup {"Traceback"}
            /\ UNCHANGED <<tasks, gpu_idx>>
       ELSE /\ tasks' = Extend(tasks, r.value, GpuKinds[gpu_idx])
            /\ gpu_idx' = gpu_idx + 1
            /\ pc' = IF gpu_idx = Len(GpuKinds) THEN "l131" ELSE "l126"
            /\ UNCHANGED <<exit_code, mainlog>>
    /\ UNCHANGED <<MAX_WORKERS, MAX_RETRIES, stop_event, attempt_count,
                   futures, k, loopSig, nSuccess, sleeps, lateSubmits,
                   calls, lateCalls, onlyFail, sawRc0, sawToolMissing,
                   fnVars>>

NextBuild == Build

SpecBuild == InitBuild /\ [][NextBuild]_vars

(***************************************************************************)
(* Properties.                                                             *)
(***************************************************************************)
Racing == pc \in {"l146", "l148", "l150", "l155", "l156", "exit"}

\* C1: over the whole run at most one create_vm call takes the success
\* branch (sets stop_event, logs [SUCCESS], returns True).
C1_AtMostOneSuccess == nSuccess <= 1

\* C2: whenever stop_event is set, exactly one attempt has returned Success.
C2_SignalMeansOneWinner == stop_event => nSuccess = 1

\* C3 (as claimed): no provisioning call is started while stop_event is set.
C3_NoCallAfterSignal == lateCalls = 0

\* C3 (amended): an attempt whose start check at l.76 reads stop_event set
\* returns False at once, with no provisioning call and no log line; every
\* attempt that goes on to call or log read the signal unset at that check.
C3_SkippedAttemptIsSilent ==
    \A i \in Idx :
        /\ futures[i].startSig = "set" =>
              /\ futures[i].st = "done"
              /\ futures[i].ret = "False"
              /\ futures[i].rc = -1
              /\ futures[i].exc = "none"
              /\ futures[i].log = {}
        /\ (Busy(futures[i]) \/ futures[i].log # {}) =>
              futures[i].startSig = "unset"

C3_Witness ==
    \E i \in Idx : futures[i].startSig = "set" /\ futures[i].st = "done"

\* C4 (as claimed): every executor.submit happens while stop_event is unset.
C4_NoSubmitAfterSignal == lateSubmits = 0

\* C4 (amended): every executor.submit follows a check at l.146 that read
\* stop_event unset, so at most one candidate is submitted after the signal
\* was set; once the loop has read the signal set it breaks, and no
\* candidate is submitted and no wave started for the rest of the run.
C4_SubmitOnlyAfterUnsetCheck ==
    /\ pc = "l148" => ~loopSig
    /\ lateSubmits <= 1
    /\ loopSig => pc \in {"l150", "l155", "l156", "exit", "l161", "done"}

C4_Witness == loopSig /\ pc = "l150" /\ k <= Len(tasks)

\* C5: main() is outside the wave (with block) only when every attempt it
\* submitted has returned, raised or been cancelled in the queue; so none
\* is in the provisioning call while main() sleeps or has terminated.
C5_Drained == ~Racing => \A i \in Idx : Settled(futures[i])

C5_Witness ==
    /\ pc = "l161"
    /\ "GcloudNotFound" \in mainlog
    /\ \E i \in Idx : futures[i].st = "done" /\ futures[i].rc # -1

\* C6: never more than MAX_WORKERS attempts inside the provisioning call.
C6_PoolBound == Cardinality(InCall) <= MAX_WORKERS

C6_Witness ==
    /\ Cardinality(InCall) = MAX_WORKERS
    /\ \E i \in Idx : futures[i].st = "queued"

\* C7: with a wave cap N >= 1 and every provisioning call exiting non-zero,
\* a finished run has run exactly N waves, slept N-1 times, logged [Stop]
\* and exited with status 0.
C7_CappedAllFail ==
    (pc = "done" /\ onlyFail /\ attempt_count >= 1 /\ MAX_RETRIES >= 1) =>
        /\ attempt_count = MAX_RETRIES
        /\ sleeps = MAX_RETRIES - 1
        /\ "Stop" \in mainlog
        /\ exit_code = 0

C7_Witness ==
    /\ pc = "done"
    /\ onlyFail
    /\ MAX_RETRIES = 2
    /\ sleeps = 1
    /\ "Stop" \in mainlog

\* C8: when discovery completes with zero candidates, the run terminates
\* with the no-zones error and exit status 1 before any wave: nothing is
\* submitted and no provisioning call is made.
C8_NoCandidates ==
    (pc \notin {"l126", "l131"} /\ tasks = <<>> /\ "Traceback" \notin mainlog) =>
        /\ pc = "done"
        /\ exit_code = 1
        /\ "NoZones" \in mainlog
        /\ attempt_count = 0
        /\ futures = <<>>
        /\ calls = 0

C8_Witness == "NoZones" \in mainlog /\ pc = "done"

\* C9: a run that ends on the tool-missing error (FileNotFoundError from an
\* attempt) exits with a non-zero status.
C9_ToolMissingExitNonZero ==
    (pc = "done" /\ "GcloudNotFound" \in mainlog) => exit_code # 0

\* C10: no failure of a discovery query propagates out of the candidate
\* builder; main() never dies in discovery.
C10_DiscoverySwallowed == "Traceback" \notin mainlog

\* C11: a failed attempt (non-zero exit of any classification) or a worker
\* exception other than tool-missing never sets stop_event and never ends
\* the run: while no attempt has succeeded and no call has raised
\* FileNotFoundError, the signal is unset, no attempt is skipped at its
\* start check, the collection loop is not left by the tool-missing break,
\* and a finished run ended on the retry limit (or before any wave).
C11_FailureStaysLocal ==
    (nSuccess = 0 /\ ~sawToolMissing) =>
        /\ ~stop_event
        /\ pc \notin {"l155", "l156"}
        /\ "GcloudNotFound" \notin mainlog
        /\ \A i \in Idx : futures[i].startSig # "set"
        /\ pc = "done" =>
              \/ "Stop" \in mainlog /\ CapReached(attempt_count, MAX_RETRIES)
              \/ attempt_count = 0

C11_Witness ==
    /\ attempt_count = 2
    /\ "WorkerCrashed" \in mainlog
    /\ ~stop_event
    /\ \E i \in Idx : "Error" \in futures[i].log

\* C15: after discovery the candidate list only gets reordered (none added,
\* none removed); the futures of a wave are the candidates in the wave's
\* order; and after a wave in which the signal was never set every
\* candidate was submitted and made exactly one provisioning call.
Count(x, t) == Cardinality({i \in 1..Len(t) : t[i] = x})

IsPermutation(t, u) ==
    /\ Len(t) = Len(u)
    /\ \A i \in 1..Len(t) : Count(t[i], t) = Count(t[i], u)

WaveDispatch ==
    /\ Len(futures) <= Len(tasks)
    /\ \A i \in Idx : futures[i].task = tasks[i]
    /\ (pc \in {"l164", "l168", "sleeping"} /\ ~stop_event) =>
          /\ Len(futures) = Len(tasks)
          /\ calls = attempt_count * Len(tasks)

C15_SameCandidatesEveryWave ==
    [][ /\ pc # "l126" => IsPermutation(tasks', tasks)
        /\ WaveDispatch' ]_vars

C15_Witness ==
    /\ attempt_count = 2
    /\ pc = "l164"
    /\ Len(tasks) = 2
    /\ calls = 4
    /\ tasks[1].gpu = GpuKinds[2]

\* C16: an attempt whose check at l.99 reads stop_event set returns False
\* without setting the signal and logs neither [SUCCESS] nor a failure
\* line, whatever its own exit status.
C16_LateResultDiscarded ==
    \A i \in Idx :
        futures[i].postSig = "set" =>
            /\ futures[i].st = "done"
            /\ futures[i].ret = "False"
            /\ futures[i].log = {"Start"}
            /\ stop_event

C16_Witness ==
    \E i \in Idx :
        /\ futures[i].postSig = "set"
        /\ futures[i].rc = 0
        /\ nSuccess = 1

\* C17: once an attempt has returned Success, main() starts no further wave
\* and takes no backoff sleep, can always take a next step until it has
\* terminated, and terminates with exit status 0.
C17_SuccessTerminates ==
    nSuccess >= 1 =>
        /\ pc \notin {"l137", "l138", "l164", "l168", "sleeping"}
        /\ "Stop" \notin mainlog
        /\ pc = "done" => exit_code = 0
        /\ pc # "done" => ENABLED Next

C17_Witness == nSuccess >= 1 /\ pc = "done" /\ exit_code = 0

\* C18: once main() has observed the tool-missing error it starts no wave
\* and takes no sleep, with or without a wave cap; after the shutdown no
\* attempt is left queued, and an attempt that made no call was cancelled
\* or skipped at its start check.
C18_ToolMissingAborts ==
    "GcloudNotFound" \in mainlog =>
        /\ pc \in {"l155", "l156", "exit", "l161", "done"}
        /\ pc \in {"exit", "l161", "done"} =>
              \A i \in Idx :
                  /\ futures[i].st # "queued"
                  /\ futures[i].st = "done" /\ ~("Start" \in futures[i].log)
                       => futures[i].startSig = "set"

C18_Witness ==
    /\ "GcloudNotFound" \in mainlog
    /\ pc = "done"
    /\ MAX_RETRIES = -1
    /\ \E i \in Idx : futures[i].st = "cancelled"

\* C19: with a wave cap configured (not -1) the number of waves run never
\* exceeds it; a cap of 0 runs no wave.
C19_WavesWithinCap == MAX_RETRIES # -1 => attempt_count <= MAX_RETRIES

\* C20: when the run has terminated and some provisioning call exited with
\* status 0, some attempt has reported [SUCCESS].
C20_AcquisitionReported == (pc = "done" /\ sawRc0) => nSuccess >= 1

\* C12: the branch create_vm takes for a failed attempt is the one the
\* priority rules give when every marker is matched without regard to
\* letter case: 'resources', 'exhausted' or 'not available' -> capacity;
\* else 'quota' -> quota; else 'invalid' or 'not found' -> [Error]; else the
\* generic failure.
C12_ClassifierMatchesSpec ==
    pc = "l117" =>
        LET low == LowerText(arg) IN
        res = IF Contains(low, "resources") \/ Contains(low, "exhausted")
                    \/ Contains(low, "not available") THEN "FailCapacity"
              ELSE IF Contains(low, "quota") THEN "FailQuota"
              ELSE IF Contains(low, "invalid") \/ Contains(low, "not found")
                   THEN "Error"
              ELSE "Fail"

\* C13: two distinct candidates (zone, gpu_type) never get the same
\* instance name, whatever the resource kinds are.
C13_NamesDistinct ==
    (pc = "l82" /\ arg[1] # arg[2]) => res[1] # res[2]

\* C14: the built candidate list holds no (zone, gpu_type) pair twice, and
\* its set of candidates is determined by the responses' contents alone:
\* the short names of the zones each response lists, whatever their order,
\* repetition or URL form.
C14_BuiltSetDeduplicated ==
    pc = "l131" =>
        /\ \A i, j \in 1..Len(tasks) : i # j => tasks[i] # tasks[j]
        /\ {tasks[i] : i \in 1..Len(tasks)} =
              UNION { IF arg[g].kind = "ok"
                      THEN {[zone |-> Last(Split(arg[g].data[n].zone, "/")),
                             gpu  |-> GpuKinds[g]] :
                               n \in {m \in 1..Len(arg[g].data) :
                                         HasZone(arg[g].data[m])}}
                      ELSE {} : g \in 1..Len(GpuKinds) }

C14_Witness ==
    /\ pc = "l131"
    /\ arg[1].kind = "ok"
    /\ arg[1].data = <<[zone |-> <<"z", "/", "a">>], [zone |-> <<"a">>]>>
    /\ arg[2].kind = "ok"
    /\ arg[2].data = <<[zone |-> <<"b">>], [zone |-> <<"b">>]>>
    /\ Len(tasks) = 2

Spec == Init /\ [][Next]_vars
====
